---------------------------- MODULE Spec2Model ----------------------------
(***************************************************************************)
(* Contact CRUD API (backend/main.py, backend/models.py).                  *)
(*                                                                         *)
(* The state is the committed contents of the contact table, the session   *)
(* of a request that has looked its row up and not yet committed, and the  *)
(* response most recently sent.                                            *)
(*                                                                         *)
(* Spec runs every handler to completion in one step and lets the store    *)
(* reject a commit only for a constraint violation.                        *)
(* SpecConcurrent adds the interleavings and the storage errors: a handler *)
(* touches the database at most twice (Contact.query.get, then             *)
(* db.session.commit), so a PATCH or DELETE may be interrupted between the *)
(* two by whole requests of other clients, and any commit may fail for a   *)
(* reason of the storage engine's own.  A lookup writes nothing, so two    *)
(* overlapping requests always behave as one of them running inside the    *)
(* other: one interrupted session covers every race of two requests.       *)
(***************************************************************************)
EXTENDS Integers, FiniteSets, Sequences, TLC

\* Bound of the model: the ids the store hands out.
MaxContacts == 2

Ids == 1..MaxContacts

\* JSON null / Python None / SQL NULL.
NoneVal == "<None>"
FirstNames == {"", "Ann"}
LastNames == {"", "Lee"}
EmailStrs == {"", "a@x", "b@x"}
JsonKeys == {"firstName", "lastName", "email"}

\* A key the request body does not hold.
Absent == "<absent>"

\* What a request may give a key: nothing, null, the empty string or a string.
JsonVals(k) ==
  (IF k = "firstName" THEN FirstNames
   ELSE IF k = "lastName" THEN LastNames ELSE EmailStrs) \cup {NoneVal, Absent}

\* The JSON object holding the keys that f gives a value.
Body(f) == [k \in { k \in JsonKeys : f[k] # Absent } |-> f[k]]

\* Request bodies: JSON objects holding any subset of the three keys.
Bodies ==
  { Body([firstName |-> a, lastName |-> b, email |-> c]) :
      a \in JsonVals("firstName"), b \in JsonVals("lastName"), c \in JsonVals("email") }

\* dict.get(key, default)
Get(d, k, default) == IF k \in DOMAIN d THEN d[k] ELSE default

\* Mutation of Truthy: `is None` in place of `not`.
Truthy_NotNone(v) == v # NoneVal

\* Python truth value of a JSON string or null: `not v` holds of None and "".
Truthy(v) == v # NoneVal /\ v # ""

Columns == {"first_name", "last_name", "email"}

\* A row of the contact table.
Row(id, first_name, last_name, email) ==
  [id |-> id, first_name |-> first_name, last_name |-> last_name, email |-> email]

\* Mutation of to_json: the two names exchanged.
to_json_Swapped(c) ==
  [id |-> c.id, firstName |-> c.last_name, lastName |-> c.first_name, email |-> c.email]

\* Contact.to_json
to_json(c) ==
  [id |-> c.id, firstName |-> c.first_name, lastName |-> c.last_name, email |-> c.email]

VARIABLES
  contacts,   \* committed rows of the contact table
  session,    \* the request in flight between its lookup and its commit
  resp,       \* the response most recently sent
  deleted     \* ids whose row a committed DELETE removed and no INSERT has reused

vars == <<contacts, session, resp, deleted>>

Idle == [op |-> "idle"]

RowIds(table) == { r.id : r \in table }

\* Contact.query.get(user_id): the rows with this primary key, {} for None.
QueryGet(table, user_id) == { r \in table : r.id = user_id }

\* nullable=False on first_name, last_name, email
NotNullOk(row) == \A k \in Columns : row[k] # NoneVal

\* Mutation of EmailTaken: the column declared without unique=True.
EmailTaken_Never(table, id, email) == FALSE

\* unique=True on email: a row other than row `id` already holds this email
EmailTaken(table, id, email) == \E r \in table : r.id # id /\ r.email = email

\* primary_key=True on an Integer column: the store assigns an id no row uses
NewIds(table) == Ids \ RowIds(table)

\* Mutation of DeleteRow: the delete is never committed.
DeleteRow_Kept(table, id) == table

\* DELETE FROM contact WHERE id = ?
DeleteRow(table, id) == { r \in table : r.id # id }

\* Payloads handed to jsonify: a dict {"message": m} or a set literal {m}.
DictPayload(m) == [type |-> "dict", message |-> m]
SetPayload(m) == [type |-> "set", message |-> m]

\* Flask's JSON provider serialises dicts, lists and strings; a Python set
\* makes json.dumps raise TypeError.
Serializable(payload) == payload.type = "dict"

\* An exception that left the handler: Flask answers 500 itself.
Unhandled(op, exc) ==
  [op |-> op, status |-> 500, message |-> "Internal Server Error", raised |-> exc]

\* return jsonify(payload), status
Returned(op, payload, status) ==
  IF Serializable(payload)
    THEN [op |-> op, status |-> status, message |-> payload.message, raised |-> ""]
    ELSE Unhandled(op, "TypeError")

MissingMsg == "You must include a first name, lasat name and email"
IntegrityMsg == "Integrity error: a contact with similar details already exists."
DatabaseMsg == "Database error occurred."
CreatedMsg == "User Created"
NotFoundMsg == "User not found"
UpdatedMsg == "User updates!!!"
DeletedMsg == "User deleted!!!"

\* Mutation of NotFound: the idiomatic 404.
NotFound_404(op) == Returned(op, DictPayload(NotFoundMsg), 404)

\* return (jsonify({"message": "User not found"}), 400)
NotFound(op) == Returned(op, DictPayload(NotFoundMsg), 400)

Init ==
  /\ contacts = {}
  /\ session = Idle
  /\ resp = [op |-> "none", status |-> 0, message |-> "", raised |-> ""]
  /\ deleted = {}

\* The list GET /contacts returns.
ContactsJson == { to_json(c) : c \in contacts }

\* GET /contacts
get_contacts ==
  /\ resp' = Returned("list", DictPayload("contacts"), 200)
  /\ UNCHANGED <<contacts, session, deleted>>

\* Presence validation of POST /create_contact.
CreateValid(first_name, last_name, email) ==
  Truthy(first_name) /\ Truthy(last_name) /\ Truthy(email)

\* Mutation of InsertOk: the email uniqueness is not enforced on INSERT.
InsertOk_NotNullOnly(table, first_name, last_name, email) ==
  NotNullOk([first_name |-> first_name, last_name |-> last_name, email |-> email])

\* The INSERT passes the table's constraints (the new row has no id yet).
InsertOk(table, first_name, last_name, email) ==
  /\ NotNullOk([first_name |-> first_name, last_name |-> last_name, email |-> email])
  /\ ~EmailTaken(table, 0, email)

\* POST /create_contact.  fault: the commit fails with a storage error that
\* is no constraint violation (a SQLAlchemyError other than IntegrityError).
create_contact(data, fault) ==
  LET first_name == Get(data, "firstName", NoneVal)
      last_name == Get(data, "lastName", NoneVal)
      email == Get(data, "email", NoneVal)
  IN
  /\ UNCHANGED session
  /\ IF ~CreateValid(first_name, last_name, email)
       THEN /\ ~fault
            /\ resp' = Returned("create", DictPayload(MissingMsg), 400)
            /\ UNCHANGED <<contacts, deleted>>
     ELSE IF fault
       THEN /\ resp' = Returned("create", DictPayload(DatabaseMsg), 500)
            /\ UNCHANGED <<contacts, deleted>>
     ELSE IF ~InsertOk(contacts, first_name, last_name, email)
       THEN /\ resp' = Returned("create", DictPayload(IntegrityMsg), 400)
            /\ UNCHANGED <<contacts, deleted>>
     ELSE \E id \in NewIds(contacts) :
            /\ contacts' = contacts \cup {Row(id, first_name, last_name, email)}
            /\ deleted' = deleted \ {id}
            /\ resp' = Returned("create", DictPayload(CreatedMsg), 201)

\* Mutation of Assigned: lastName defaults to the first name.
Assigned_WrongDefault(contact, data) ==
  Row(contact.id,
      Get(data, "firstName", contact.first_name),
      Get(data, "lastName", contact.first_name),
      Get(data, "email", contact.email))

\* The attribute assignments of updata_contact on the loaded object.
Assigned(contact, data) ==
  Row(contact.id,
      Get(data, "firstName", contact.first_name),
      Get(data, "lastName", contact.last_name),
      Get(data, "email", contact.email))

\* The columns the unit of work flushes: those whose value differs from the
\* value loaded.
Dirty(contact, new) == { k \in Columns : new[k] # contact[k] }

\* UPDATE contact SET <dirty columns> WHERE id = ?
UpdateRow(table, new, dirty) ==
  { IF r.id = new.id
      THEN [k \in DOMAIN r |-> IF k \in dirty THEN new[k] ELSE r[k]]
      ELSE r : r \in table }

\* What the flush of an update raises, "" when the store accepts it.
UpdateError(table, new, dirty) ==
  IF dirty = {} THEN ""
  ELSE IF QueryGet(table, new.id) = {} THEN "StaleDataError"
  ELSE IF \E k \in dirty : new[k] = NoneVal THEN "IntegrityError"
  ELSE IF "email" \in dirty /\ EmailTaken(table, new.id, new.email) THEN "IntegrityError"
  ELSE ""

\* The table after the assignments on the loaded contact and the commit: the
\* UPDATE applied, or the table as it was when the flush raises.
Updated(table, contact, data) ==
  LET new == Assigned(contact, data)
      dirty == Dirty(contact, new)
  IN IF UpdateError(table, new, dirty) = "" THEN UpdateRow(table, new, dirty) ELSE table

\* updata_contact from the assignments on: commit and response.
UpdateCommit(contact, data, fault) ==
  LET new == Assigned(contact, data)
      err == UpdateError(contacts, new, Dirty(contact, new))
  IN
  /\ UNCHANGED deleted
  /\ IF fault
       THEN /\ resp' = Unhandled("update", "OperationalError")
            /\ UNCHANGED contacts
       ELSE /\ contacts' = Updated(contacts, contact, data)
            /\ resp' = IF err # "" THEN Unhandled("update", err)
                       ELSE Returned("update", SetPayload(UpdatedMsg), 200)

\* delete_contact from session.delete on: commit and response.
DeleteCommit(id, fault) ==
  IF fault
    THEN /\ resp' = Unhandled("delete", "OperationalError")
         /\ UNCHANGED <<contacts, deleted>>
    ELSE /\ contacts' = DeleteRow(contacts, id)
         /\ deleted' = IF id \in RowIds(contacts) THEN deleted \cup {id} ELSE deleted
         /\ resp' = Returned("delete", SetPayload(DeletedMsg), 200)

\* PATCH /update_contact/<user_id>, run without interruption.
updata_contact(user_id, data, fault) ==
  /\ UNCHANGED session
  /\ IF QueryGet(contacts, user_id) = {}
       THEN /\ ~fault
            /\ resp' = NotFound("update")
            /\ UNCHANGED <<contacts, deleted>>
       ELSE \E contact \in QueryGet(contacts, user_id) :
              UpdateCommit(contact, data, fault)

\* DELETE /delete_contact/<user_id>, run without interruption.
delete_contact(user_id, fault) ==
  /\ UNCHANGED session
  /\ IF QueryGet(contacts, user_id) = {}
       THEN /\ ~fault
            /\ resp' = NotFound("delete")
            /\ UNCHANGED <<contacts, deleted>>
       ELSE DeleteCommit(user_id, fault)

\* PATCH: Contact.query.get found the row; other requests run before the commit.
update_lookup(user_id) ==
  /\ session = Idle
  /\ \E contact \in QueryGet(contacts, user_id) :
       session' = [op |-> "update", contact |-> contact]
  /\ UNCHANGED <<contacts, resp, deleted>>

\* PATCH: the interrupted request resumes.
update_commit(data, fault) ==
  /\ session.op = "update"
  /\ session' = Idle
  /\ UpdateCommit(session.contact, data, fault)

\* DELETE: Contact.query.get found the row; other requests run before the commit.
delete_lookup(user_id) ==
  /\ session = Idle
  /\ QueryGet(contacts, user_id) # {}
  /\ session' = [op |-> "delete", id |-> user_id]
  /\ UNCHANGED <<contacts, resp, deleted>>

\* DELETE: the interrupted request resumes.
delete_commit(fault) ==
  /\ session.op = "delete"
  /\ session' = Idle
  /\ DeleteCommit(session.id, fault)

\* Every request runs to completion; the store rejects a commit only for a
\* constraint violation.
Next ==
  \/ get_contacts
  \/ \E data \in Bodies : create_contact(data, FALSE)
  \/ \E user_id \in Ids, data \in Bodies : updata_contact(user_id, data, FALSE)
  \/ \E user_id \in Ids : delete_contact(user_id, FALSE)

Spec == Init /\ [][Next]_vars

\* Requests interleave and any commit may fail.
NextConcurrent ==
  \/ get_contacts
  \/ \E data \in Bodies, fault \in BOOLEAN : create_contact(data, fault)
  \/ \E user_id \in Ids, data \in Bodies, fault \in BOOLEAN :
       updata_contact(user_id, data, fault)
  \/ \E user_id \in Ids, fault \in BOOLEAN : delete_contact(user_id, fault)
  \/ \E user_id \in Ids : update_lookup(user_id)
  \/ \E data \in Bodies, fault \in BOOLEAN : update_commit(data, fault)
  \/ \E user_id \in Ids : delete_lookup(user_id)
  \/ \E fault \in BOOLEAN : delete_commit(fault)

SpecConcurrent == Init /\ [][NextConcurrent]_vars

(***************************************************************************)
(* Properties.                                                             *)
(***************************************************************************)

\* The column a JSON key is stored in.
Col(k) == IF k = "firstName" THEN "first_name"
          ELSE IF k = "lastName" THEN "last_name" ELSE "email"

\* A key of the body is absent, null or empty.
Missing(data) == \E k \in JsonKeys : k \notin DOMAIN data \/ data[k] \in {NoneVal, ""}

PopulatedBodies ==
  { Body([firstName |-> a, lastName |-> b, email |-> c]) :
      a \in FirstNames \ {""}, b \in LastNames \ {""}, c \in EmailStrs \ {""} }

\* The step answers a request of this kind (every handler tags its response).
Answers(op) == resp'.op = op

\* C1: in every reachable state, under every interleaving of create, update
\* and delete requests, no two stored contacts share an email.
C1_UniqueEmails == \A r1, r2 \in contacts : r1 # r2 => r1.email # r2.email

\* Two contacts are stored and an update that would have duplicated an email
\* has just been rejected.
C1_Witness ==
  /\ Cardinality(contacts) = 2
  /\ resp.op = "update"
  /\ resp.raised = "IntegrityError"

\* C2: a create whose email a stored contact already has responds 400 and
\* leaves the store as it was, holding exactly one contact with that email.
C2_DuplicateCreateRejected ==
  [][Answers("create") =>
     \A data \in PopulatedBodies :
       (/\ \E r \in contacts : r.email = data["email"]
        /\ create_contact(data, FALSE))
       => (/\ resp'.status = 400
           /\ contacts' = contacts
           /\ Cardinality({ r \in contacts' : r.email = data["email"] }) = 1)]_vars

\* The second create has been answered 400 and the first contact is stored.
C2_Witness ==
  /\ resp.op = "create"
  /\ resp.status = 400
  /\ resp.message = IntegrityMsg
  /\ Cardinality(contacts) = 1

\* C3: a create with firstName, lastName or email absent, null or empty
\* responds 400 and leaves the stored contacts as they were.
C3_MissingFieldRejected ==
  [][Answers("create") =>
     ((\E data \in Bodies : Missing(data) /\ create_contact(data, FALSE))
       => (resp'.status = 400 /\ contacts' = contacts))]_vars

\* A create has been refused for a missing field while contacts are stored.
C3_Witness ==
  /\ resp.op = "create"
  /\ resp.status = 400
  /\ resp.message = MissingMsg
  /\ contacts # {}

\* C4: a create with all three fields populated and an unused email responds
\* 201, and the list then holds a contact with exactly those field values
\* under an id no other stored contact has.
C4_CreateSucceeds ==
  [][Answers("create") =>
     \A data \in PopulatedBodies :
       (/\ \A r \in contacts : r.email # data["email"]
        /\ create_contact(data, FALSE))
       => (/\ resp'.status = 201
           /\ contacts \subseteq contacts'
           /\ \E j \in ContactsJson' :
                /\ j.firstName = data["firstName"]
                /\ j.lastName = data["lastName"]
                /\ j.email = data["email"]
                /\ j.id \notin RowIds(contacts)
                /\ \A o \in ContactsJson' : o.id = j.id => o = j)]_vars

\* A create has been answered 201 and the store holds two contacts.
C4_Witness ==
  /\ resp.op = "create"
  /\ resp.status = 201
  /\ Cardinality(contacts) = 2

\* What an update of contact `id` with body `data` leaves alone, from the
\* table before it to the table after it: the ids, every other contact, and
\* every field of the contact that the body does not supply.
UpdateFrame(before, after, id, data) ==
  /\ RowIds(after) = RowIds(before)
  /\ Cardinality(after) = Cardinality(before)
  /\ \A r \in before :
       IF r.id # id THEN r \in after
       ELSE \E n \in after :
              /\ n.id = id
              /\ \A k \in JsonKeys \ DOMAIN data : n[Col(k)] = r[Col(k)]

\* C5: an update of an existing contact keeps every field the body does not
\* supply, keeps the contact's id, and leaves every other contact unchanged.
\* Stated, in every reachable state and for every body, of the table that the
\* update of each stored contact commits.
C5_UpdateChangesOnlySupplied ==
  \A contact \in contacts, data \in Bodies :
    UpdateFrame(contacts, Updated(contacts, contact, data), contact.id, data)

\* An update the store accepted has changed a contact with an empty first
\* name and a non-empty last name while another contact is stored.
C5_Witness ==
  /\ resp.op = "update"
  /\ resp.raised = "TypeError"
  /\ Cardinality(contacts) = 2
  /\ \E r \in contacts : r.first_name = "" /\ r.last_name = "Lee"

\* The commit of this update is rejected by the store.
UpdateRejected(user_id, data) ==
  \E contact \in QueryGet(contacts, user_id) :
    LET new == Assigned(contact, data) IN
    UpdateError(contacts, new, Dirty(contact, new)) # ""

\* The handler itself answered, with 400 or 500, and nothing was stored.
CaughtAtHandler ==
  /\ resp'.raised = ""
  /\ resp'.status \in {400, 500}
  /\ contacts' = contacts

\* C6: whenever the store rejects the commit of a create or of an update, the
\* handler catches the failure, answers 400 or 500 with its own message and
\* leaves the stored contacts unchanged.
C6_StorageFailuresCaught ==
  [][/\ \A data \in Bodies :
          (/\ ~Missing(data)
           /\ \E r \in contacts : r.email = data["email"]
           /\ create_contact(data, FALSE))
          => CaughtAtHandler
     /\ \A user_id \in Ids, data \in Bodies :
          (UpdateRejected(user_id, data) /\ updata_contact(user_id, data, FALSE))
          => CaughtAtHandler]_vars

\* C7: in every reachable state every stored contact has a non-empty
\* first_name, last_name and email.
C7_FieldsNonEmpty ==
  \A r \in contacts : \A k \in Columns : r[k] # "" /\ r[k] # NoneVal

\* C8: an update of an existing id that the store accepts, and a delete of an
\* existing id, respond 200 with a success message.
C8_SuccessIs200 ==
  [][/\ \A user_id \in Ids, data \in Bodies :
          (/\ user_id \in RowIds(contacts)
           /\ ~UpdateRejected(user_id, data)
           /\ updata_contact(user_id, data, FALSE))
          => (resp'.status = 200 /\ resp'.message = UpdatedMsg)
     /\ \A user_id \in Ids :
          (user_id \in RowIds(contacts) /\ delete_contact(user_id, FALSE))
          => (resp'.status = 200 /\ resp'.message = DeletedMsg)]_vars

\* C9: a delete of an existing id removes exactly that contact, which stays
\* out of the list until a create reuses the id; a delete of an id that is not
\* stored, such as a second delete, responds 400 and changes nothing.
C9_DeleteRemovesExactlyOne ==
  /\ [](deleted \cap { j.id : j \in ContactsJson } = {})
  /\ [][\A user_id \in Ids :
          (Answers("delete") /\ delete_contact(user_id, FALSE))
          => IF user_id \in RowIds(contacts)
               THEN /\ contacts' = { r \in contacts : r.id # user_id }
                    /\ contacts' # contacts
                    /\ user_id \in deleted'
               ELSE resp'.status = 400 /\ contacts' = contacts]_vars

\* A delete has been answered 400 for an id deleted before, while another
\* contact is still stored.
C9_Witness ==
  /\ resp.op = "delete"
  /\ resp.status = 400
  /\ contacts # {}
  /\ deleted = Ids \ RowIds(contacts)

\* C10: an update of an id no stored contact has responds 400 and leaves the
\* stored contacts unchanged, whatever the body.
C10_UpdateUnknownId ==
  [][Answers("update") =>
     ((\E user_id \in Ids \ RowIds(contacts), data \in Bodies :
         updata_contact(user_id, data, FALSE))
       => (resp'.status = 400 /\ contacts' = contacts))]_vars

\* An update has been answered 400 while a contact is stored.
C10_Witness ==
  /\ resp.op = "update"
  /\ resp.status = 400
  /\ resp.message = NotFoundMsg
  /\ contacts # {}

=============================================================================
